---- MODULE Spec2Model ----
(***************************************************************************)
(* A model of ballchaser.client.BallChaser: the request executor           *)
(* (_request), the retry wrapper (_request_backoff, built with             *)
(* backoff.on_exception(expo, RateLimitException, max_tries, jitter=None)),*)
(* the dispatcher (__request) and the two paginated list generators        *)
(* (list_replays, list_groups).                                            *)
(*                                                                         *)
(* One client object issues one operation.  A list operation is a Python   *)
(* generator: the call creates it, every Pull is one next() of the caller, *)
(* and the generator runs until its next yield, its end or an exception.   *)
(* Inside a pull the generator blocks in session.request; every such       *)
(* transport round trip is one Attempt step whose answer the server        *)
(* chooses.                                                                *)
(***************************************************************************)
EXTENDS Integers, Sequences, FiniteSets

VARIABLES
    backoff,    \* self.backoff
    max_tries,  \* max_tries bound into self._request_backoff
    op,         \* the operation the caller invoked on the client
    pc,         \* position of the operation
    count,      \* replay_count / group_count of the list call
    req,        \* arguments of the request in progress: method, url, params["count"]
    tries,      \* attempts made so far for the request in progress
    slept,      \* the waits (seconds) the retry wrapper has slept, in order
    r,          \* the last Response returned by __request / _request
    replays,    \* r.json()["list"] of the page being yielded (named groups in list_groups)
    remaining,  \* the generator's local `remaining`
    sl,         \* the slice the generator is in `yield from` of
    idx,        \* how many items of sl were yielded
    yielded,    \* every item the caller received from the call, in order
    log,        \* every transport round trip the call made: request and answer
    error,      \* the exception raised to the caller, if any
    detail,     \* the argument (message) of that exception
    args,       \* the validated arguments of the call, until they are checked
    pulls,      \* next() calls the caller has made on the generator
    stopped,    \* a next() on the generator has raised StopIteration
    spent       \* transport round trips made by earlier list calls on the client

vars == <<backoff, max_tries, op, pc, count, req, tries, slept, r, replays,
          remaining, sl, idx, yielded, log, error, detail, args, pulls, stopped,
          spent>>

----------------------------------------------------------------------------
(* Bounds of the model. *)

\* longest `list` a page carries
MaxLen == 2
\* largest small requested count (counts around PageCap are added below)
MaxCount == 3
\* largest max_tries a client is constructed with (besides the default)
MaxTries == 2
\* transport round trips one run may make, over all its calls
MaxCalls == 3

(* Program constants. *)

\* min(remaining, 200)
PageCap == 200
\* def __init__(self, token, backoff=False, max_tries=10)
DefaultMaxTries == 10

----------------------------------------------------------------------------
(* Values. *)

NoNext == <<"none", 0>>
\* f"{self._bc_url}/replays", f"{self._bc_url}/groups", and the url of direct calls
BaseUrl(o) == <<o, 0>>
\* the `next` pointer the server puts on the page it serves as round trip k
NextUrl(k) == <<"next", k>>

ListOps == {"list_replays", "list_groups"}
DirectOps == {"_request", "_request_backoff"}
\* public operations that make one request and return its response, its
\* decoded body or nothing
SimpleOps ==
    {"ping", "get_maps", "get_replay", "upload_replay", "delete_replay",
     "patch_replay", "download_replay", "create_group", "get_group",
     "delete_group", "patch_group"}
\* the HTTP method of the request of a simple operation
Method(o) ==
    CASE o \in {"upload_replay", "create_group"} -> "POST"
      [] o \in {"delete_replay", "delete_group"} -> "DELETE"
      [] o \in {"patch_replay", "patch_group"} -> "PATCH"
      [] OTHER -> "GET"
\* the operations that return response.json()
DecodesJson(o) ==
    o \in {"ping", "get_maps", "get_replay", "upload_replay", "create_group", "get_group"}

Counts == {-1} \cup (0..MaxCount) \cup {PageCap + d : d \in 0..MaxLen}
TriesValues == (1..MaxTries) \cup {DefaultMaxTries}

NoResponse == [status |-> 0, list |-> <<>>, next |-> NoNext, body |-> "none"]
NoRequest == [method |-> "none", url |-> NoNext, cnt |-> 0]

\* The answers the server may give to round trip k of a list operation: a 2xx
\* page of 0..MaxLen fresh items with or without a `next` pointer, a 429 or
\* another failure.  Item <<k, i>> is the i-th item of the page served by
\* round trip k.
PageAnswers(k) ==
    {[status |-> 200, list |-> [i \in 1..n |-> <<k, i>>], next |-> nx,
      body |-> "page"] :
        n \in 0..MaxLen, nx \in {NoNext, NextUrl(k)}}
\* The body of an answer that is no page: JSON with an `error` field
\* ({"error": "..."}), JSON without one, or text that is not JSON.
Bodies == {"json_error", "json_other", "text"}
ErrorAnswers(S, B) ==
    {[status |-> s, list |-> <<>>, next |-> NoNext, body |-> b] :
        s \in S, b \in B}
\* response.json() succeeds on the body
IsJson(body) == body \in {"page", "json_error", "json_other"}
\* What operation o does with the 2xx response it got: returns it (or its
\* decoded body, or None once the file is written), or raises because the
\* body is not JSON or because the directory or file cannot be written.
ResponseUse(o, body, writable) ==
    IF o \in SimpleOps /\ DecodesJson(o) /\ ~IsJson(body) THEN "JSONDecodeError"
    ELSE IF o = "download_replay" /\ ~writable THEN "OSError"
    ELSE "return"
\* a list endpoint answers a failure with {"error": "..."}
ListAnswers(k) == PageAnswers(k) \cup ErrorAnswers({429, 500}, {"json_error"})
\* The answers to a direct _request / _request_backoff call: any status, the
\* body is opaque.
DirectAnswers ==
    ErrorAnswers({100, 199, 200, 201, 299, 300, 404, 428, 429, 430, 500}, Bodies)

Min(a, b) == IF a < b THEN a ELSE b
Max(a, b) == IF a > b THEN a ELSE b

\* Python's s[:n]: the first n items, all of s when n >= len(s), and for a
\* negative n all but the last -n items.
PySlice(s, n) ==
    IF n >= 0 THEN SubSeq(s, 1, Min(n, Len(s)))
    ELSE SubSeq(s, 1, Max(Len(s) + n, 0))

----------------------------------------------------------------------------
\* mutant: only status 200 counts as success
Request_only_200(status) ==
    IF status # 200
    THEN IF status = 429 THEN "RateLimitException" ELSE "Exception"
    ELSE "return"
\* mutant: every status below 400 counts as success
Request_below_400(status) ==
    IF ~(200 <= status /\ status < 400)
    THEN IF status = 429 THEN "RateLimitException" ELSE "Exception"
    ELSE "return"

\* response.text: the raw text of the body
ResponseText(body) == <<"text", body>>
\* response.json()["error"]: the value of the body's `error` field
ErrorField(body) == <<"error field", body>>
NoDetail == <<"none", "none">>

\* mutant: raise ...(response.json()["error"]) when the body has the field
RequestDetail_error_field(ans) ==
    IF ans.body = "json_error" THEN ErrorField(ans.body) ELSE ResponseText(ans.body)

\* _request: raise RateLimitException(response.text) / Exception(response.text)
RequestDetail(ans) == ResponseText(ans.body)

(* _request: classification of the status of one transport call. *)
Request(status) ==
    IF ~(200 <= status /\ status < 300)
    THEN IF status = 429 THEN "RateLimitException" ELSE "Exception"
    ELSE "return"

\* mutant: the wrapper retries on no exception at all
Retryable_nothing(outcome) == FALSE
\* mutant: on_exception(expo, Exception, ...) retries every failure
Retryable_any_exception(outcome) == outcome # "return"
\* mutant: one budget of max_tries for all transport calls made so far
GiveUp_total(t, mt) == Len(log) + 1 >= mt
\* mutant: gives up one attempt late
GiveUp_late(t, mt) == t > mt

(* on_exception(expo, RateLimitException, max_tries=max_tries, jitter=None) *)
\* the exception class the wrapper retries on
Retryable(outcome) == outcome = "RateLimitException"
\* max_tries_exceeded = (tries == max_tries_value)
GiveUp(t, mt) == t = mt
\* mutant: on_exception(constant, ...): the same wait every time
Expo_constant(t) == 1
\* expo: factor * base ** n with base 2, factor 1, n = 0, 1, 2, ...
RECURSIVE Pow2(_)
Pow2(n) == IF n <= 0 THEN 1 ELSE 2 * Pow2(n - 1)
\* the wait after the t-th attempt of a request
Expo(t) == Pow2(t - 1)

\* mutant: the page fetches of the list generators call _request directly
UsesBackoff_not_for_lists(o, b) ==
    IF o \in DirectOps THEN o = "_request_backoff" ELSE b /\ o \notin ListOps

\* __request: the wrapper when self.backoff, else _request itself; a direct
\* call names the one it wants.
UsesBackoff(o, b) == IF o \in DirectOps THEN o = "_request_backoff" ELSE b

\* What one attempt (number t) ends in: "return", "retry" (sleep and call
\* again), or the exception raised to the caller.
AttemptOutcome(o, b, mt, t, status) ==
    LET res == Request(status) IN
    IF res = "return" THEN "return"
    ELSE IF UsesBackoff(o, b) /\ Retryable(res) /\ ~GiveUp(t, mt) THEN "retry"
    ELSE res

----------------------------------------------------------------------------
\* mutant: while remaining >= 0 and "next" in r.json()
list_replays_loop_nonneg(rem, resp) == rem >= 0 /\ resp.next # NoNext
\* mutant: params={"count": remaining}
list_replays_next_request_uncapped(rem, resp) ==
    [method |-> "GET", url |-> resp.next, cnt |-> rem]
\* mutant: yield from replays[-remaining:]
list_replays_next_slice_tail(reps, rem) ==
    SubSeq(reps, Max(Len(reps) - rem, 0) + 1, Len(reps))
\* mutant: while remaining > 0
list_groups_loop_no_next_test(rem, resp) == rem > 0
\* mutant: yield from groups
list_groups_next_slice_whole(groups, rem) == groups

(* list_replays, lines 281-294. *)
\* yield from replays[:replay_count]
list_replays_first_slice(reps, replay_count) == PySlice(reps, replay_count)
\* mutant: remaining counts down by everything yielded so far
list_replays_remaining_cumulative(replay_count, reps) == replay_count - Len(yielded)
\* remaining = replay_count - len(replays)
list_replays_remaining(replay_count, reps) == replay_count - Len(reps)
\* mutant: the loop follows `next` whatever remaining is
list_replays_loop_while_next(rem, resp) == resp.next # NoNext
\* while remaining > 0 and "next" in r.json()
list_replays_loop(rem, resp) == rem > 0 /\ resp.next # NoNext
\* self.__request("GET", r.json()["next"], params={"count": min(remaining, 200)})
list_replays_next_request(rem, resp) ==
    [method |-> "GET", url |-> resp.next, cnt |-> Min(rem, PageCap)]
\* yield from replays[:remaining]
list_replays_next_slice(reps, rem) == PySlice(reps, rem)

(* list_groups, lines 449-462. *)
\* mutant: the first page of groups is yielded whole
list_groups_first_slice_whole(groups, group_count) == groups
\* yield from groups[:group_count]
list_groups_first_slice(groups, group_count) == PySlice(groups, group_count)
\* remaining = group_count - len(groups)
list_groups_remaining(group_count, groups) == group_count - Len(groups)
\* while remaining > 0 and "next" in r.json()
list_groups_loop(rem, resp) == rem > 0 /\ resp.next # NoNext
\* self.__request("GET", r.json()["next"], params={"count": min(remaining, 200)})
list_groups_next_request(rem, resp) ==
    [method |-> "GET", url |-> resp.next, cnt |-> Min(rem, PageCap)]
\* yield from groups[:remaining]
list_groups_next_slice(groups, rem) == PySlice(groups, rem)

(* The generator of the operation o. *)
FirstSlice(o, reps, c) ==
    IF o = "list_replays" THEN list_replays_first_slice(reps, c)
    ELSE list_groups_first_slice(reps, c)
Remaining(o, c, reps) ==
    IF o = "list_replays" THEN list_replays_remaining(c, reps)
    ELSE list_groups_remaining(c, reps)
Loop(o, rem, resp) ==
    IF o = "list_replays" THEN list_replays_loop(rem, resp)
    ELSE list_groups_loop(rem, resp)
NextRequest(o, rem, resp) ==
    IF o = "list_replays" THEN list_replays_next_request(rem, resp)
    ELSE list_groups_next_request(rem, resp)
NextSlice(o, reps, rem) ==
    IF o = "list_replays" THEN list_replays_next_slice(reps, rem)
    ELSE list_groups_next_slice(reps, rem)
\* the first request: GET {_bc_url}/replays or /groups, no page size given
FirstRequest(o) ==
    [method |-> "GET",
     url |-> BaseUrl(IF o = "list_replays" THEN "replays" ELSE "groups"),
     cnt |-> 0]

----------------------------------------------------------------------------
(* Validation of the arguments, before any request. *)

\* the allow-lists, lines 16-69
Playlists ==
    {"unranked-duels", "unranked-doubles", "unranked-standard", "unranked-chaos",
     "private", "season", "offline", "ranked-duels", "ranked-doubles",
     "ranked-solo-standard", "ranked-standard", "snowday", "rocketlabs", "hoops",
     "rumble", "tournament", "dropshot", "ranked-hoops", "ranked-rumble",
     "ranked-dropshot", "ranked-snowday", "dropshot-rumble", "heatseeker"}
Ranks ==
    {"unranked", "bronze-1", "bronze-2", "bronze-3", "silver-1", "silver-2",
     "silver-3", "gold-1", "gold-2", "gold-3", "platinum-1", "platinum-2",
     "platinum-3", "diamond-1", "diamond-2", "diamond-3", "champion-1",
     "champion-2", "champion-3", "grand-champion"}
MatchResults == {"win", "loss"}
Visibilities == {"public", "unlisted", "private"}
PlayerIdentifications == {"by-id", "by-name"}
TeamIdentifications == {"by-distinct-players", "by-player-clusters"}
SortByReplays == {"created", "replay-date"}
SortByGroups == {"created", "name"}
SortDir == {"asc", "desc"}

\* An argument: None, a scalar or a list of items.
None == [kind |-> "none", items |-> <<>>]
Scalar(v) == [kind |-> "scalar", items |-> <<v>>]
List(vs) == [kind |-> "list", items |-> vs]
\* Python's truth value of an argument: None, "" and [] are false
Truthy(param) ==
    /\ param.kind # "none"
    /\ param.items # <<>>
    /\ (param.kind = "scalar" => param.items[1] # "")

\* param = [param] if not isinstance(param, (list, set)) else param
AsList(param) ==
    IF param.kind = "list" THEN param.items
    ELSE IF param.kind = "none" THEN <<"None">>
    ELSE param.items

\* mutant: only the first item is looked at
CheckParam_first_only(param, allowed) ==
    IF AsList(param) # <<>> /\ AsList(param)[1] \notin allowed
    THEN "ValueError" ELSE "ok"

\* _check_param: for item in param: if item not in allowed_values: raise ValueError
RECURSIVE CheckItems(_, _, _)
CheckItems(items, n, allowed) ==
    IF n > Len(items) THEN "ok"
    ELSE IF items[n] \notin allowed THEN "ValueError"
    ELSE CheckItems(items, n + 1, allowed)
CheckParam(param, allowed) == CheckItems(AsList(param), 1, allowed)

\* the checks of one operation, in the order the code makes them:
\* <<argument, allow-list, guarded by `is not None`>>
RECURSIVE RunChecks(_, _, _)
RunChecks(a, checks, n) ==
    IF n > Len(checks) THEN <<"ok", "none">>
    ELSE LET c == checks[n] IN
         IF c[3] /\ a[c[1]].kind = "none" THEN RunChecks(a, checks, n + 1)
         ELSE IF CheckParam(a[c[1]], c[2]) = "ValueError" THEN <<"ValueError", c[1]>>
         ELSE RunChecks(a, checks, n + 1)

\* list_replays, lines 226-241
list_replays_validate(a) ==
    IF ~Truthy(a["player_name"]) /\ ~Truthy(a["player_id"])
    THEN <<"Exception", "player_name or player_id">>
    ELSE RunChecks(a, << <<"playlist", Playlists, TRUE>>,
                         <<"match_result", MatchResults, TRUE>>,
                         <<"min_rank", Ranks, TRUE>>,
                         <<"max_rank", Ranks, TRUE>>,
                         <<"sort_by", SortByReplays, FALSE>>,
                         <<"sort_dir", SortDir, FALSE>> >>, 1)
\* list_groups, lines 432-433
list_groups_validate(a) ==
    RunChecks(a, << <<"sort_by", SortByGroups, FALSE>>,
                    <<"sort_dir", SortDir, FALSE>> >>, 1)
\* upload_replay, line 307
upload_replay_validate(a) ==
    RunChecks(a, << <<"visibility", Visibilities, FALSE>> >>, 1)
\* create_group, lines 385-392
create_group_validate(a) ==
    RunChecks(a, << <<"player_identification", PlayerIdentifications, FALSE>>,
                    <<"team_identification", TeamIdentifications, FALSE>> >>, 1)
Validate(o, a) ==
    CASE o = "list_replays" -> list_replays_validate(a)
      [] o = "list_groups" -> list_groups_validate(a)
      [] o = "upload_replay" -> upload_replay_validate(a)
      [] o = "create_group" -> create_group_validate(a)
      [] OTHER -> <<"ok", "none">>

\* The arguments the caller may pass.
ArgNames ==
    {"player_name", "player_id", "playlist", "match_result", "min_rank", "max_rank",
     "sort_by", "sort_dir", "visibility", "player_identification",
     "team_identification"}
NoArgs == [n \in ArgNames |-> None]
ArgsOf(o) ==
    CASE o = "list_replays" ->
           [player_name: {None, Scalar("x")},
            player_id: {None, List(<<"steam:1">>)},
            playlist: {None, Scalar("bogus"), List(<<"hoops", "rumble">>),
                          List(<<"hoops", "bogus">>)},
            match_result: {None, Scalar("draw")},
            min_rank: {None, Scalar("wood-1")},
            max_rank: {Scalar("gold-1"), Scalar("gold-4")},
            sort_by: {Scalar("created"), Scalar("name")},
            sort_dir: {Scalar("desc"), None},
            visibility: {None},
            player_identification: {None},
            team_identification: {None}]
      [] o = "list_groups" ->
           [player_name: {None}, player_id: {None}, playlist: {None},
            match_result: {None}, min_rank: {None}, max_rank: {None},
            sort_by: {Scalar("created"), Scalar("name"), Scalar("replay-date")},
            sort_dir: {Scalar("asc"), Scalar("up")},
            visibility: {None},
            player_identification: {None},
            team_identification: {None}]
      [] o = "upload_replay" ->
           [player_name: {None}, player_id: {None}, playlist: {None},
            match_result: {None}, min_rank: {None}, max_rank: {None},
            sort_by: {None}, sort_dir: {None},
            visibility: {Scalar("public"), Scalar("unlisted"), Scalar("hidden")},
            player_identification: {None},
            team_identification: {None}]
      [] o = "create_group" ->
           [player_name: {None}, player_id: {None}, playlist: {None},
            match_result: {None}, min_rank: {None}, max_rank: {None},
            sort_by: {None}, sort_dir: {None}, visibility: {None},
            player_identification: {Scalar("by-id"), Scalar("by-team")},
            team_identification: {Scalar("by-player-clusters"), Scalar("by-id")}]
      [] OTHER -> {NoArgs}
\* the arguments of a call that passes nothing but what it must:
\* list_replays(player_name="x"), list_groups(); sort_by and sort_dir
\* default to "created" and "desc"
PlainArgs(o) ==
    [NoArgs EXCEPT !["player_name"] = IF o = "list_replays" THEN Scalar("x") ELSE None,
                   !["sort_by"] = Scalar("created"),
                   !["sort_dir"] = Scalar("desc")]

----------------------------------------------------------------------------
\* def __init__(self, token, backoff=False, ...)
DefaultBackoff == FALSE

Init ==
    /\ backoff \in {DefaultBackoff, TRUE}
    /\ max_tries \in TriesValues
    /\ op = "none"
    /\ pc = "idle"
    /\ count = 0
    /\ req = NoRequest
    /\ tries = 0
    /\ slept = <<>>
    /\ r = NoResponse
    /\ replays = <<>>
    /\ remaining = 0
    /\ sl = <<>>
    /\ idx = 0
    /\ yielded = <<>>
    /\ log = <<>>
    /\ error = "none"
    /\ detail = NoDetail
    /\ args = NoArgs
    /\ pulls = 0
    /\ stopped = FALSE
    /\ spent = 0

\* The generator running on with the page resp in hand, inside
\* `yield from s` after i of its items: the next item is yielded, or the
\* slice is exhausted, remaining is recomputed and the loop either asks for
\* the next page or ends the generator: the next() in progress then raises
\* StopIteration.
Run(resp, reps, s, i) ==
    /\ r' = resp
    /\ replays' = reps
    /\ sl' = s
    /\ UNCHANGED <<error, detail>>
    /\ IF i < Len(s)
       THEN /\ yielded' = Append(yielded, s[i + 1])
            /\ idx' = i + 1
            /\ pc' = "yield"
            /\ UNCHANGED <<remaining, req, tries, stopped>>
       ELSE LET rem == Remaining(op, count, reps) IN
            /\ remaining' = rem
            /\ idx' = i
            /\ yielded' = yielded
            /\ IF Loop(op, rem, resp)
               THEN /\ pc' = "next_request"
                    /\ req' = NextRequest(op, rem, resp)
                    /\ tries' = 0
                    /\ UNCHANGED stopped
               ELSE /\ pc' = "done"
                    /\ stopped' = TRUE
                    /\ UNCHANGED <<req, tries>>

\* mutant: the call itself fetches the first page, before any next()
ListReplays_eager ==
    /\ pc = "idle"
    /\ \E c \in Counts : count' = c
    /\ op' = "list_replays"
    /\ pc' = "first_request"
    /\ req' = FirstRequest("list_replays")
    /\ UNCHANGED <<backoff, max_tries, spent, tries, slept, r, replays, remaining,
                   sl, idx, yielded, log, error, detail, args, pulls, stopped>>

\* list_replays(..., replay_count=c, ...): the call only creates the generator
ListReplays ==
    /\ pc = "idle"
    /\ \E c \in Counts : count' = c
    /\ \E a \in ArgsOf("list_replays") : args' = a
    /\ op' = "list_replays"
    /\ pc' = "created"
    /\ UNCHANGED <<backoff, max_tries, spent, req, tries, slept, r, replays, remaining,
                   sl, idx, yielded, log, error, detail, pulls, stopped>>

\* list_groups(..., group_count=c, ...)
ListGroups ==
    /\ pc = "idle"
    /\ \E c \in Counts : count' = c
    /\ \E a \in ArgsOf("list_groups") : args' = a
    /\ op' = "list_groups"
    /\ pc' = "created"
    /\ UNCHANGED <<backoff, max_tries, spent, req, tries, slept, r, replays, remaining,
                   sl, idx, yielded, log, error, detail, pulls, stopped>>

\* a direct call _request("GET", url) or _request_backoff("GET", url)
CallDirect ==
    /\ pc = "idle"
    /\ \E o \in DirectOps :
        /\ op' = o
        /\ req' = [method |-> "GET", url |-> BaseUrl("api"), cnt |-> 0]
    /\ pc' = "request"
    /\ tries' = 0
    /\ UNCHANGED <<backoff, max_tries, spent, count, slept, r, replays, remaining,
                   sl, idx, yielded, log, error, detail, args, pulls, stopped>>

\* ping(), get_maps(), get_replay(id), upload_replay(path, visibility),
\* delete_replay(id), patch_replay(id, ...), download_replay(id, directory),
\* create_group(name, ...), get_group(id), delete_group(id),
\* patch_group(id, ...): the arguments are checked where the operation has
\* checks, upload_replay opens the file at `path` (which may not exist), and
\* then self.__request is called once
CallSimple ==
    /\ pc = "idle"
    /\ \E o \in SimpleOps : \E a \in ArgsOf(o) :
       \E exists \in (IF o = "upload_replay" THEN BOOLEAN ELSE {TRUE}) :
        LET v == Validate(o, a) IN
        /\ op' = o
        /\ args' = a
        /\ IF v[1] # "ok"
           THEN /\ pc' = "failed"
                /\ error' = v[1]
                /\ detail' = <<"message", v[2]>>
                /\ req' = req
           ELSE IF ~exists
           THEN /\ pc' = "failed"
                /\ error' = "FileNotFoundError"
                /\ detail' = <<"message", "path">>
                /\ req' = req
           ELSE /\ pc' = "request"
                /\ req' = [method |-> Method(o), url |-> BaseUrl(o), cnt |-> 0]
                /\ UNCHANGED <<error, detail>>
    /\ tries' = 0
    /\ UNCHANGED <<backoff, max_tries, spent, count, slept, r, replays, remaining,
                   sl, idx, yielded, log, pulls, stopped>>

\* mutant: the cursor lives on the client, a later list call goes on from
\* the `next` pointer and the remaining count the last one left behind
ListAgain_shared_cursor ==
    /\ op \in ListOps
    /\ pc \in {"done", "failed"}
    /\ stopped
    /\ log # <<>>
    /\ \E o \in ListOps : \E c \in Counts :
          /\ op' = o
          /\ count' = c
          /\ IF r.next # NoNext
             THEN /\ pc' = "next_request"
                  /\ req' = NextRequest(o, remaining, r)
             ELSE /\ pc' = "first_request"
                  /\ req' = FirstRequest(o)
    /\ spent' = spent + Len(log)
    /\ args' = NoArgs
    /\ tries' = 0
    /\ slept' = <<>>
    /\ sl' = <<>>
    /\ idx' = 0
    /\ yielded' = <<>>
    /\ log' = <<>>
    /\ error' = "none"
    /\ detail' = NoDetail
    /\ pulls' = 0
    /\ stopped' = FALSE
    /\ UNCHANGED <<backoff, max_tries, r, replays, remaining>>

\* A further list_replays(...) or list_groups(...) call on the client after a
\* list call whose generator has ended and told the caller so: a new generator with locals of its
\* own; the client holds no state of the earlier one.  The call is made
\* with a count and plain arguments.  The round trips of the earlier calls count
\* against MaxCalls.
ListAgain ==
    /\ op \in ListOps
    /\ pc \in {"done", "failed"}
    /\ stopped
    /\ log # <<>>
    /\ \E o \in ListOps : \E c \in Counts :
          /\ op' = o
          /\ count' = c
          /\ args' = PlainArgs(o)
    /\ pc' = "created"
    /\ spent' = spent + Len(log)
    /\ req' = NoRequest
    /\ tries' = 0
    /\ slept' = <<>>
    /\ r' = NoResponse
    /\ replays' = <<>>
    /\ remaining' = 0
    /\ sl' = <<>>
    /\ idx' = 0
    /\ yielded' = <<>>
    /\ log' = <<>>
    /\ error' = "none"
    /\ detail' = NoDetail
    /\ pulls' = 0
    /\ stopped' = FALSE
    /\ UNCHANGED <<backoff, max_tries>>

\* next() of the caller on the generator
Pull ==
    \* a new generator starts: the arguments are checked, then the first
    \* request is made (the arguments live on in `params` only)
    \/ /\ pc = "created"
       /\ LET v == Validate(op, args) IN
          IF v[1] = "ok"
          THEN /\ pc' = "first_request"
               /\ req' = FirstRequest(op)
               /\ args' = NoArgs
               /\ UNCHANGED <<error, detail>>
          ELSE /\ pc' = "failed"
               /\ error' = v[1]
               /\ detail' = <<"message", v[2]>>
               /\ UNCHANGED <<req, args>>
       /\ tries' = 0
       /\ pulls' = pulls + 1
       /\ UNCHANGED <<backoff, max_tries, spent, op, count, slept, r, replays,
                      remaining, sl, idx, yielded, log, stopped>>
    \* a generator suspended at a yield resumes
    \/ /\ pc = "yield"
       /\ Run(r, replays, sl, idx)
       /\ pulls' = pulls + 1
       /\ UNCHANGED <<backoff, max_tries, spent, op, count, slept, log, args>>
    \* a generator that raised is finished: the next() after the one that got
    \* the exception raises StopIteration, and nothing else happens (any later
    \* next(), also on a generator that ended normally, does the same and is
    \* left out)
    \/ /\ pc = "failed"
       /\ op \in ListOps
       /\ ~stopped
       /\ pulls' = pulls + 1
       /\ stopped' = TRUE
       /\ UNCHANGED <<backoff, max_tries, spent, op, pc, count, req, tries, slept, r,
                      replays, remaining, sl, idx, yielded, log, error, detail,
                      args>>

\* One transport round trip of the request in progress and what the code
\* does with the answer up to its next blocking point.
Attempt ==
    /\ pc \in {"request", "first_request", "next_request"}
    /\ spent + Len(log) < MaxCalls
    /\ \E ans \in (IF op \in ListOps THEN ListAnswers(Len(log) + 1) ELSE DirectAnswers),
          writable \in (IF op = "download_replay" THEN BOOLEAN ELSE {TRUE}) :
        LET t == tries + 1
            out == AttemptOutcome(op, backoff, max_tries, t, ans.status)
            use == ResponseUse(op, ans.body, writable)
        IN
        /\ log' = Append(log, [method |-> req.method, url |-> req.url, cnt |-> req.cnt,
                               try |-> t, status |-> ans.status,
                               list |-> ans.list, next |-> ans.next,
                               body |-> ans.body])
        /\ CASE out = "retry" ->
                  /\ slept' = Append(slept, Expo(t))
                  /\ tries' = t
                  /\ UNCHANGED <<pc, req, r, replays, remaining, sl, idx, yielded,
                                 error, detail, stopped>>
             [] out = "return" /\ op \notin ListOps ->
                  /\ r' = ans
                  /\ tries' = t
                  /\ IF use = "return"
                     THEN /\ pc' = "returned"
                          /\ UNCHANGED <<error, detail>>
                     ELSE /\ pc' = "failed"
                          /\ error' = use
                          /\ detail' = <<"message", use>>
                  /\ UNCHANGED <<req, slept, replays, remaining, sl, idx, yielded,
                                 stopped>>
             [] out = "return" /\ op \in ListOps /\ pc = "first_request" ->
                  /\ Run(ans, ans.list, FirstSlice(op, ans.list, count), 0)
                  /\ UNCHANGED slept
             [] out = "return" /\ op \in ListOps /\ pc = "next_request" ->
                  /\ Run(ans, ans.list, NextSlice(op, ans.list, remaining), 0)
                  /\ UNCHANGED slept
             [] OTHER ->
                  /\ pc' = "failed"
                  /\ error' = out
                  /\ detail' = RequestDetail(ans)
                  /\ tries' = t
                  /\ UNCHANGED <<req, slept, r, replays, remaining, sl, idx, yielded,
                                 stopped>>
    /\ UNCHANGED <<backoff, max_tries, spent, op, count, args, pulls>>

Next ==
    ListReplays \/ ListGroups \/ ListAgain \/ CallDirect \/ CallSimple \/ Pull \/ Attempt

Spec == Init /\ [][Next]_vars

\* The caller keeps calling next() and every transport call comes back with
\* an answer (requests.request blocks until it has one).
LiveSpec == Init /\ [][Next]_vars /\ WF_vars(Pull) /\ WF_vars(Attempt)

----------------------------------------------------------------------------
(* What the log and the caller's view say, read independently of the code. *)

Is2xx(status) == status \in 200..299
\* the round trips that returned a page
PageIdx == {j \in 1..Len(log) : Is2xx(log[j].status)}
\* the requests issued: a retry of the same request is not a new request
NRequests == Cardinality({j \in 1..Len(log) : log[j].try = 1})
\* the page fetched before round trip j, 0 if none
PrevPage(j) ==
    LET before == {i \in PageIdx : i < j}
    IN IF before = {} THEN 0 ELSE CHOOSE i \in before : \A k \in before : k <= i
FirstPage == IF PageIdx = {} THEN 0 ELSE CHOOSE i \in PageIdx : \A k \in PageIdx : i <= k
LastPage == PrevPage(Len(log) + 1)
\* the items of page j the caller received
Taken(j) == Cardinality({x \in 1..Len(yielded) : yielded[x][1] = j})
RECURSIVE ServedUpTo(_)
ServedUpTo(j) ==
    IF j = 0 THEN 0
    ELSE ServedUpTo(j - 1) + (IF j \in PageIdx THEN Len(log[j].list) ELSE 0)
\* the first Taken(j) items of every fetched page j, page after page
RECURSIVE PrefixesUpTo(_)
PrefixesUpTo(j) ==
    IF j = 0 THEN <<>>
    ELSE PrefixesUpTo(j - 1) \o
         (IF j \in PageIdx
          THEN SubSeq(log[j].list, 1, Min(Taken(j), Len(log[j].list)))
          ELSE <<>>)
\* how many items s[:lim] has when s has n
TakeLen(n, lim) == IF lim >= 0 THEN Min(n, lim) ELSE Max(n + lim, 0)

----------------------------------------------------------------------------
\* C1: the number of items one list production (list_replays or list_groups)
\* yields never exceeds the requested count (replay_count / group_count),
\* for every non-negative requested count and every sequence of pages.
C1_YieldedWithinCount ==
    (op \in ListOps /\ count >= 0) => Len(yielded) <= count

\* C2: the items yielded never number more than the items the server
\* returned on the pages fetched so far, and the yielded sequence is the
\* in-order concatenation of a prefix of each fetched page's list: nothing is
\* invented, duplicated or reordered.
C2_YieldedArePagePrefixes ==
    op \in ListOps =>
        /\ Len(yielded) <= ServedUpTo(Len(log))
        /\ yielded = PrefixesUpTo(Len(log))

\* C2 witness: two pages were fetched, items of both were yielded and the
\* second page was cut short.
C2_Witness ==
    /\ op \in ListOps
    /\ pc = "done"
    /\ Cardinality(PageIdx) = 2
    /\ Taken(FirstPage) = 2
    /\ Taken(LastPage) = 1
    /\ Len(log[LastPage].list) = 2

\* C3: when 0 <= requested count <= number of items on the first page, the
\* producer issues exactly one request, even if the page carries `next`, and
\* yields exactly the first min(count, items on the page) = count items of
\* that page in order.
C3_OneRequestWhenFirstPageSuffices ==
    (op \in ListOps /\ FirstPage # 0 /\ 0 <= count
        /\ count <= Len(log[FirstPage].list)) =>
        /\ NRequests = 1
        /\ pc \in {"yield", "done"}
        /\ Len(yielded) <= Min(count, Len(log[FirstPage].list))
        /\ yielded = SubSeq(log[FirstPage].list, 1, Len(yielded))
        /\ (pc = "done" => Len(yielded) = Min(count, Len(log[FirstPage].list)))
        /\ (pc = "yield" => Len(yielded) >= 1)

\* C3 witness: the first page has `next` and exactly as many items as were
\* requested, all were yielded and the generator ended.
C3_Witness ==
    /\ op \in ListOps
    /\ pc = "done"
    /\ count = 2
    /\ FirstPage # 0
    /\ Len(log[FirstPage].list) = 2
    /\ log[FirstPage].next # NoNext
    /\ Len(yielded) = 2

\* C4: whenever the requested count exceeds the number of items on the page
\* just fetched and that page carries `next`, the producer issues a follow-up
\* GET to exactly that `next` url with count = min(remaining, 200), where
\* remaining = requested count - items on that page; the page size sent is
\* always in 1..200.  No follow-up is issued otherwise.
C4_FollowUpRequest ==
    op \in ListOps =>
        /\ pc = "next_request" =>
              /\ count > Len(r.list)
              /\ r.next # NoNext
              /\ req.method = "GET"
              /\ req.url = r.next
              /\ req.cnt = Min(count - Len(r.list), 200)
        /\ pc = "done" => ~(count > Len(r.list) /\ r.next # NoNext)
        /\ \A j \in 1..Len(log) :
              IF PrevPage(j) = 0
              THEN log[j].url \in {BaseUrl("replays"), BaseUrl("groups")}
              ELSE LET p == log[PrevPage(j)] IN
                   /\ count > Len(p.list)
                   /\ p.next # NoNext
                   /\ log[j].method = "GET"
                   /\ log[j].url = p.next
                   /\ log[j].cnt = Min(count - Len(p.list), 200)
                   /\ log[j].cnt \in 1..200

\* C4 witness: a follow-up request went out with the page size capped at
\* 200 although more than 200 items were still wanted.
C4_Witness ==
    /\ op \in ListOps
    /\ \E j \in 1..Len(log) :
          /\ PrevPage(j) # 0
          /\ log[j].cnt = 200
          /\ count - Len(log[PrevPage(j)].list) > 200

\* C5: a fetched page without `next` is the last one: the producer yields
\* the items on it, up to its limit (the requested count on the first page),
\* and ends without any further request however large the requested count
\* is; an empty first page without `next` yields nothing after one request.
C5_NoNextEndsProduction ==
    op \in ListOps =>
        /\ \A j \in PageIdx :
              log[j].next = NoNext =>
                  /\ j = Len(log)
                  /\ pc \in {"yield", "done"}
        /\ (LastPage # 0 /\ log[LastPage].next = NoNext /\ pc = "done") =>
              LET lim == IF PrevPage(LastPage) = 0 THEN count
                         ELSE count - Len(log[PrevPage(LastPage)].list)
              IN /\ Taken(LastPage) = TakeLen(Len(log[LastPage].list), lim)
                 /\ (count >= 0 => Taken(LastPage) <= count)
        /\ (FirstPage # 0 /\ log[FirstPage].list = <<>>
               /\ log[FirstPage].next = NoNext) =>
              /\ pc = "done"
              /\ yielded = <<>>
              /\ NRequests = 1

\* C5 witness: far more items were requested than exist, the second page has
\* no `next`, its items were yielded and the generator ended.
C5_Witness ==
    /\ op \in ListOps
    /\ pc = "done"
    /\ count >= PageCap
    /\ Cardinality(PageIdx) = 2
    /\ log[LastPage].next = NoNext
    /\ Taken(LastPage) = 2
    /\ LastPage = Len(log)

\* C6: first page of n1 items with `next`, second page of n2 items without:
\* for a requested count > n1 the production makes exactly two requests and
\* yields the n1 items of the first page followed by the first
\* min(n2, count - n1) items of the second, in order.
C6_TwoPageScenario ==
    (op \in ListOps /\ FirstPage # 0 /\ log[FirstPage].next # NoNext
        /\ count > Len(log[FirstPage].list)) =>
        /\ (Cardinality(PageIdx) = 1 => pc # "done" /\ NRequests <= 2)
        /\ (Cardinality(PageIdx) = 2 /\ log[LastPage].next = NoNext) =>
              LET p1 == log[FirstPage].list
                  p2 == log[LastPage].list
                  want == p1 \o SubSeq(p2, 1, Min(Len(p2), count - Len(p1)))
              IN /\ NRequests = 2
                 /\ pc \in {"yield", "done"}
                 /\ Len(yielded) <= Len(want)
                 /\ yielded = SubSeq(want, 1, Len(yielded))
                 /\ (pc = "done" => yielded = want)

\* C6 witness: [A, B] with next, then [C, D] without; 3 were requested and
\* A, B, C were yielded by two requests.
C6_Witness ==
    /\ op \in ListOps
    /\ pc = "done"
    /\ count = 3
    /\ Cardinality(PageIdx) = 2
    /\ Len(log[FirstPage].list) = 2
    /\ Len(log[LastPage].list) = 2
    /\ log[LastPage].next = NoNext
    /\ Len(yielded) = 3
    /\ NRequests = 2

\* C7: with max_tries = N >= 1 and a transport that answers 429 to every
\* attempt, _request_backoff makes exactly N attempts, never more, and then
\* raises RateLimitException, which is not the generic Exception raised for
\* the other non-2xx statuses.
C7_GivesUpAfterMaxTries ==
    op = "_request_backoff" =>
        /\ (\A j \in 1..Len(log) : log[j].status = 429) =>
              /\ Len(log) <= max_tries
              /\ (Len(log) < max_tries => pc = "request" /\ error = "none")
              /\ (Len(log) = max_tries =>
                     pc = "failed" /\ error = "RateLimitException")
        /\ (pc = "failed" /\ log[Len(log)].status # 429) => error = "Exception"

\* C7 witness: max_tries = 2, two attempts were answered 429 and the call
\* failed with RateLimitException.
C7_Witness ==
    /\ op = "_request_backoff"
    /\ max_tries = 2
    /\ Len(log) = 2
    /\ \A j \in 1..Len(log) : log[j].status = 429
    /\ pc = "failed"
    /\ error = "RateLimitException"

\* C8: with k < max_tries consecutive 429 answers followed by a 2xx answer,
\* _request_backoff makes exactly k + 1 attempts and returns that 2xx
\* response (k = 1: exactly 2 attempts).
C8_ReturnsSuccessAfterRateLimits ==
    op = "_request_backoff" =>
        /\ \A k \in 0..(Len(log) - 1) :
              (/\ k < max_tries
               /\ \A j \in 1..k : log[j].status = 429
               /\ Is2xx(log[k + 1].status)) =>
                  /\ Len(log) = k + 1
                  /\ pc = "returned"
                  /\ error = "none"
                  /\ r.status = log[k + 1].status
                  /\ r.list = log[k + 1].list
                  /\ r.next = log[k + 1].next
        /\ (Len(log) < max_tries /\ \A j \in 1..Len(log) : log[j].status = 429) =>
              pc = "request"

\* C8 witness: one 429 and then a 2xx; the call returned after 2 attempts.
C8_Witness ==
    /\ op = "_request_backoff"
    /\ pc = "returned"
    /\ Len(log) = 2
    /\ log[1].status = 429
    /\ r.status = 201

\* the operation raised on using the 2xx response the request had returned
RaisedOnResponse == pc = "failed" /\ error \in {"JSONDecodeError", "OSError"}

\* C9: only a 429 answer is retried.  A 2xx answer is returned and a non-429
\* non-2xx answer is raised at once: no further attempt of that request and
\* no backoff wait follow it, whatever max_tries is and however many 429
\* answers came before.  (What the operation then does with the returned
\* response, decoding it or writing it to a file, may still raise.)
C9_RetriesOnlyRateLimited ==
    /\ \A j \in 1..Len(log) :
          (~Is2xx(log[j].status) /\ log[j].status # 429) =>
              /\ j = Len(log)
              /\ pc = "failed"
              /\ error = "Exception"
    /\ \A j \in 1..Len(log) :
          Is2xx(log[j].status) =>
              /\ j < Len(log) => log[j + 1].try = 1
              /\ j = Len(log) =>
                    \/ pc \in {"returned", "yield", "next_request", "done"}
                    \/ RaisedOnResponse
    /\ \A j \in 2..Len(log) :
          log[j].try > 1 =>
              /\ log[j - 1].status = 429
              /\ log[j].try = log[j - 1].try + 1
              /\ log[j].url = log[j - 1].url
              /\ log[j].cnt = log[j - 1].cnt
    /\ Len(slept) =
          Cardinality({j \in 1..Len(log) :
                          /\ log[j].status = 429
                          /\ ~(j = Len(log) /\ pc = "failed")})

\* C9 witness: after one retried 429 a 500 answer ended the wrapped call with
\* the generic exception although many tries were left.
C9_Witness ==
    /\ op = "_request_backoff"
    /\ max_tries = DefaultMaxTries
    /\ Len(log) = 2
    /\ log[1].status = 429
    /\ log[2].status = 500
    /\ pc = "failed"
    /\ error = "Exception"
    /\ Len(slept) = 1

\* C10: _request makes exactly one transport call and classifies its status:
\* 200..299 returns the response, 429 raises RateLimitException, every other
\* status (1xx and 3xx such as 300 included) raises the generic Exception.
C10_RequestClassifiesStatus ==
    op = "_request" =>
        /\ Len(log) <= 1
        /\ slept = <<>>
        /\ Len(log) = 0 => pc = "request"
        /\ Len(log) = 1 =>
              LET s == log[1].status IN
              IF s \in 200..299
              THEN pc = "returned" /\ error = "none" /\ r.status = s
              ELSE IF s = 429
              THEN pc = "failed" /\ error = "RateLimitException"
              ELSE pc = "failed" /\ error = "Exception"

\* C10 witness: status 300 was answered and the generic Exception raised.
C10_Witness ==
    /\ op = "_request"
    /\ Len(log) = 1
    /\ log[1].status = 300
    /\ pc = "failed"
    /\ error = "Exception"

\* the request of the operation failed on a non-2xx answer
RequestFailed ==
    /\ pc = "failed"
    /\ log # <<>>
    /\ error \in {"RateLimitException", "Exception"}

\* C11 (as claimed): for a non-2xx response the detail carried by the raised
\* error is the value of the body's `error` field when the body is
\* structured and has one, and the raw response body text otherwise.
C11_DetailIsErrorFieldWhenPresent ==
    RequestFailed =>
        LET body == log[Len(log)].body IN
        detail = IF body = "json_error" THEN <<"error field", body>>
                 ELSE <<"text", body>>

\* C11 (amended): for a non-2xx response the detail carried by the raised
\* error is always the raw response body text, also when the body is
\* structured and contains an `error` field.
C11_DetailIsRawText ==
    RequestFailed => detail = <<"text", log[Len(log)].body>>

\* C11 witness: a 404 whose body is {"error": ...} was raised with the raw
\* body text as its detail.
C11_Witness ==
    /\ RequestFailed
    /\ log[Len(log)].status = 404
    /\ log[Len(log)].body = "json_error"
    /\ error = "Exception"
    /\ detail = <<"text", "json_error">>

\* the slice limit the producer applied to page j: the requested count on
\* the first page, count - (items on the page before) afterwards
LimitOf(j) ==
    IF PrevPage(j) = 0 THEN count ELSE count - Len(log[PrevPage(j)].list)
\* round trip j ended its page fetch in a failure: a non-2xx answer that the
\* retry wrapper, if in use, does not retry
FetchFailedAt(j) ==
    /\ ~Is2xx(log[j].status)
    /\ (log[j].status # 429 \/ ~backoff \/ log[j].try = max_tries)

\* C12: a page fetch (first or follow-up) that ends in a non-2xx answer
\* aborts the list production: the error is raised at that fetch, after all
\* items yielded from earlier pages were delivered, and afterwards no item is
\* yielded and no request is issued; the production does not end normally.
\* (A step that changes spent is a further list call, not this production.)
C12_FailedFetchAborts ==
    /\ [](op \in ListOps =>
            /\ \A j \in 1..Len(log) :
                  FetchFailedAt(j) =>
                      /\ j = Len(log)
                      /\ pc = "failed"
                      /\ error = IF log[j].status = 429 THEN "RateLimitException"
                                 ELSE "Exception"
                      /\ \A p \in PageIdx :
                            Taken(p) = TakeLen(Len(log[p].list), LimitOf(p))
            /\ (pc = "done" => log # <<>> /\ Is2xx(log[Len(log)].status)))
    /\ [][(op \in ListOps /\ pc = "failed" /\ spent' = spent) =>
            /\ pc' = "failed"
            /\ yielded' = yielded
            /\ log' = log
            /\ error' = error
            /\ stopped']_vars

\* C12 witness: the second page fetch was answered 500 after both items of
\* the first page had been delivered; the caller pulled again and got
\* nothing more.
C12_Witness ==
    /\ op \in ListOps
    /\ pc = "failed"
    /\ error = "Exception"
    /\ Len(log) = 2
    /\ log[2].status = 500
    /\ Len(yielded) = 2
    /\ stopped

\* the items an argument supplies: itself, or the elements of a list
ItemsOf(param) ==
    IF param.kind = "list" THEN {param.items[i] : i \in 1..Len(param.items)}
    ELSE IF param.kind = "none" THEN {"None"}
    ELSE {param.items[1]}
OutsideAllowList(param, allowed) == \E item \in ItemsOf(param) : item \notin allowed
\* what the validation of operation o must answer to the arguments a
ExpectedValidation(o, a) ==
    CASE o = "list_replays" ->
           IF a.player_name \in {None, Scalar(""), List(<<>>)}
              /\ a.player_id \in {None, Scalar(""), List(<<>>)}
           THEN "Exception"
           ELSE IF \/ (a.playlist # None /\ OutsideAllowList(a.playlist, Playlists))
                   \/ (a.match_result # None
                          /\ OutsideAllowList(a.match_result, MatchResults))
                   \/ (a.min_rank # None /\ OutsideAllowList(a.min_rank, Ranks))
                   \/ (a.max_rank # None /\ OutsideAllowList(a.max_rank, Ranks))
                   \/ OutsideAllowList(a.sort_by, SortByReplays)
                   \/ OutsideAllowList(a.sort_dir, SortDir)
           THEN "ValueError" ELSE "ok"
      [] o = "list_groups" ->
           IF \/ OutsideAllowList(a.sort_by, SortByGroups)
              \/ OutsideAllowList(a.sort_dir, SortDir)
           THEN "ValueError" ELSE "ok"
      [] o = "upload_replay" ->
           IF OutsideAllowList(a.visibility, Visibilities) THEN "ValueError" ELSE "ok"
      [] o = "create_group" ->
           IF \/ OutsideAllowList(a.player_identification, PlayerIdentifications)
              \/ OutsideAllowList(a.team_identification, TeamIdentifications)
           THEN "ValueError" ELSE "ok"
      [] OTHER -> "ok"
\* the step in which the arguments are checked: the first next() of a list
\* generator, the call itself of another operation
ChecksArguments ==
    \/ (op \in ListOps /\ pc = "created" /\ pc' # "created")
    \/ (pc = "idle" /\ op' \in SimpleOps)

\* C13: validation errors precede all network activity: list_replays with
\* neither player_name nor player_id, and any operation given an enumerated
\* parameter outside its allow-list, raises with zero requests sent;
\* ValueError is raised exactly when some supplied item (a scalar, or any
\* element of a list) is not in the allowed values.  (Valid arguments may
\* still fail before the request on the file upload_replay is to read.)
C13_ValidationBeforeRequests ==
    /\ [](error = "ValueError" => log = <<>> /\ pc = "failed")
    /\ []((pc = "failed" /\ log = <<>>) =>
            error \in {"ValueError", "Exception", "FileNotFoundError"})
    /\ [][ChecksArguments =>
            LET a == IF pc = "created" THEN args ELSE args'
                want == ExpectedValidation(op', a)
            IN IF want = "ok"
               THEN \/ pc' \in {"first_request", "request"} /\ error' = "none"
                    \/ pc' = "failed" /\ error' = "FileNotFoundError"
               ELSE pc' = "failed" /\ error' = want /\ log' = <<>>]_vars

\* C13 witness: list_replays with a player name and the playlist list
\* ["hoops", "bogus"] raised ValueError on the first next() with no request
\* sent.
C13_Witness ==
    /\ op = "list_replays"
    /\ pc = "failed"
    /\ error = "ValueError"
    /\ args.player_name = Scalar("x")
    /\ args.playlist = List(<<"hoops", "bogus">>)
    /\ log = <<>>
    /\ pulls = 1

\* C14: list production is lazy: no request is issued before the caller's
\* first next(); the request for the following page is issued only after the
\* caller has consumed every item yielded from the current page and pulls
\* again; a caller that stops after k items has caused requests only for the
\* pages up to and including the one that supplied item k.
C14_LazyProduction ==
    op \in ListOps =>
        /\ pulls = 0 => log = <<>> /\ pc = "created"
        /\ Len(yielded) <= pulls
        /\ pc \in {"first_request", "next_request"} => pulls = Len(yielded) + 1
        /\ pc = "yield" =>
              /\ pulls = Len(yielded)
              /\ yielded[Len(yielded)][1] = Len(log)
        /\ \A j \in PageIdx :
              j < Len(log) => Taken(j) = TakeLen(Len(log[j].list), LimitOf(j))

\* C14 witness: the caller stopped after the first item of the second page;
\* that page has `next` and more items are wanted, yet only two requests
\* were made.
C14_Witness ==
    /\ op \in ListOps
    /\ pc = "yield"
    /\ count >= PageCap
    /\ Len(log) = 2
    /\ Len(log[1].list) = 2
    /\ Len(log[2].list) = 2
    /\ log[2].next # NoNext
    /\ Len(yielded) = 3
    /\ pulls = 3

PublicOps == ListOps \cup SimpleOps

\* C15: the retry policy is selected by the client's backoff setting and
\* applies to every public operation: with backoff disabled (the default) a
\* 429 answer is raised as RateLimitException after exactly one attempt;
\* with backoff enabled every request, every page fetch of a list production
\* included, is retried on 429 up to the max_tries given at construction.
C15_PolicyFollowsBackoffSetting ==
    op \in PublicOps =>
        /\ ~backoff =>
              /\ slept = <<>>
              /\ \A j \in 1..Len(log) :
                    /\ log[j].try = 1
                    /\ log[j].status = 429 =>
                          /\ j = Len(log)
                          /\ pc = "failed"
                          /\ error = "RateLimitException"
        /\ backoff =>
              \A j \in 1..Len(log) :
                  /\ log[j].try <= max_tries
                  /\ (log[j].status = 429 /\ log[j].try < max_tries) =>
                        IF j = Len(log)
                        THEN /\ pc \in {"request", "first_request", "next_request"}
                             /\ tries = log[j].try
                        ELSE /\ log[j + 1].try = log[j].try + 1
                             /\ log[j + 1].url = log[j].url
                             /\ log[j + 1].cnt = log[j].cnt
                  /\ (log[j].status = 429 /\ log[j].try = max_tries) =>
                        /\ j = Len(log)
                        /\ pc = "failed"
                        /\ error = "RateLimitException"

\* C15 witness: on a client with backoff enabled the fetch of the second
\* page of a list production was answered 429 and tried again.
C15_Witness ==
    /\ op \in ListOps
    /\ backoff
    /\ Len(log) = 3
    /\ Is2xx(log[1].status)
    /\ log[2].status = 429
    /\ log[3].try = 2
    /\ log[3].url = log[1].next

\* the 429 answers after which the wrapper went on to another attempt
RetriedIdx ==
    {j \in 1..Len(log) : log[j].status = 429 /\ ~(j = Len(log) /\ pc = "failed")}
\* the wait slept after round trip j, a member of RetriedIdx
WaitAfter(j) == slept[Cardinality({i \in RetriedIdx : i <= j})]

\* C16: between consecutive attempts of one retried request the wrapper
\* waits a jitter-free, strictly increasing exponential delay: the wait
\* before attempt k+1 is a fixed function of k that doubles with every
\* further rate-limited attempt; no wait follows the final attempt or an
\* outcome that is not rate-limited.
C16_ExponentialWaits ==
    /\ Len(slept) = Cardinality(RetriedIdx)
    /\ \A j \in RetriedIdx :
          /\ WaitAfter(j) > 0
          /\ \A i \in RetriedIdx : log[i].try = log[j].try => WaitAfter(i) = WaitAfter(j)
          /\ (j + 1 \in RetriedIdx /\ log[j + 1].try = log[j].try + 1) =>
                /\ WaitAfter(j + 1) = 2 * WaitAfter(j)
                /\ WaitAfter(j + 1) > WaitAfter(j)

\* C16 witness: two 429 answers were retried and the second wait was twice
\* the first; the 2xx answer that followed was returned without a wait.
C16_Witness ==
    /\ op = "_request_backoff"
    /\ pc = "returned"
    /\ Len(log) = 3
    /\ log[1].status = 429
    /\ log[2].status = 429
    /\ Len(slept) = 2
    /\ slept[2] = 2 * slept[1]

\* the page `remaining` was last computed from: the page in hand once its
\* slice is exhausted, the page before it while its items are being yielded
RemainingPage == IF pc = "yield" THEN PrevPage(LastPage) ELSE LastPage

\* C17: after each fetched page the producer sets remaining to the requested
\* count minus the number of items on that page alone, not minus the number
\* of items yielded so far; the next page yields at most that many items,
\* and the loop continues iff that value is > 0 and the page carries `next`.
C17_RemainingFromLastPageAlone ==
    op \in ListOps =>
        /\ RemainingPage # 0 => remaining = count - Len(log[RemainingPage].list)
        /\ \A j \in PageIdx :
              PrevPage(j) # 0 => Taken(j) <= count - Len(log[PrevPage(j)].list)
        /\ \A j \in PageIdx :
              (j < Len(log) \/ pc \in {"next_request", "done"}) =>
                  ((j < Len(log) \/ pc = "next_request") <=>
                      /\ count - Len(log[j].list) > 0
                      /\ log[j].next # NoNext)

\* C17 witness: two pages were yielded from and the value of remaining after
\* the second differs from the count minus everything yielded so far.
C17_Witness ==
    /\ op \in ListOps
    /\ pc = "next_request"
    /\ FirstPage # LastPage
    /\ Taken(FirstPage) > 0
    /\ Taken(LastPage) > 0
    /\ remaining = count - Len(log[LastPage].list)
    /\ remaining # count - Len(yielded)

\* What the pagination code of operation o does with requested count c when
\* the server gives the answers of the log from round trip j on: the items
\* it yields, the follow-up requests it issues and how it ends.  pj is the
\* page fetched before (0 if none).  A retried 429 repeats the request.
NoProduction == [items |-> <<>>, reqs |-> <<>>, end |-> "open"]
RECURSIVE Paginate(_, _, _, _, _)
Paginate(o, c, j, pj, acc) ==
    IF j > Len(log) THEN acc
    ELSE IF ~Is2xx(log[j].status)
    THEN IF FetchFailedAt(j) THEN [acc EXCEPT !.end = "failed"]
         ELSE Paginate(o, c, j + 1, pj, acc)
    ELSE LET page == log[j]
             s == IF pj = 0 THEN FirstSlice(o, page.list, c)
                  ELSE NextSlice(o, page.list, Remaining(o, c, log[pj].list))
             rem == Remaining(o, c, page.list)
             more == Loop(o, rem, page)
             acc2 == [items |-> acc.items \o s,
                      reqs |-> IF more THEN Append(acc.reqs, NextRequest(o, rem, page))
                               ELSE acc.reqs,
                      end |-> IF more THEN "open" ELSE "done"]
         IN IF more THEN Paginate(o, c, j + 1, j, acc2) ELSE acc2
\* the follow-up requests the production issued or is about to issue
IssuedFollowUps ==
    LET firsts == SelectSeq(log, LAMBDA e : e.try = 1)
        sent == [k \in 1..(Len(firsts) - 1) |->
                    [method |-> firsts[k + 1].method, url |-> firsts[k + 1].url,
                     cnt |-> firsts[k + 1].cnt]]
    IN IF pc = "next_request" /\ tries = 0 THEN Append(sent, req) ELSE sent
IsPrefix(s, t) == Len(s) <= Len(t) /\ s = SubSeq(t, 1, Len(s))

\* C18: given the same requested count and the same sequence of server
\* answers, list_replays and list_groups run the same pagination: the same
\* items are yielded, the same number of requests is issued, the same `next`
\* urls are followed with the same follow-up count, and both stop or fail at
\* the same point.  The production that ran is the one computed here.
C18_SamePagination ==
    (op \in ListOps /\ log # <<>>) =>
        LET p == Paginate(op, count, 1, 0, NoProduction) IN
        /\ Paginate("list_replays", count, 1, 0, NoProduction)
              = Paginate("list_groups", count, 1, 0, NoProduction)
        /\ IsPrefix(yielded, p.items)
        /\ IsPrefix(IssuedFollowUps, p.reqs)
        /\ pc # "yield" =>
              /\ yielded = p.items
              /\ IssuedFollowUps = p.reqs
              /\ pc = "done" <=> p.end = "done"
              /\ pc = "failed" <=> p.end = "failed"

\* C18 witness: a production of groups over two pages that cut the second
\* page short and ended; the pagination of replays does the same with it.
C18_Witness ==
    /\ op = "list_groups"
    /\ pc = "done"
    /\ FirstPage # LastPage
    /\ Taken(FirstPage) > 0
    /\ Taken(LastPage) > 0
    /\ Taken(LastPage) < Len(log[LastPage].list)
    /\ Len(IssuedFollowUps) = 1
    /\ Paginate("list_replays", count, 1, 0, NoProduction).items = yielded

\* page j has fewer items than the requested count and carries `next`
ShortPage(j) == Len(log[j].list) < count /\ log[j].next # NoNext
\* the production ended and the caller was told so
Finished == pc \in {"done", "failed"} /\ stopped
\* the MaxCalls answers observed in all do not end the page chain: every page
\* fetched is short and no fetch has failed for good
ChainOpen ==
    /\ spent + Len(log) = MaxCalls
    /\ pc \in {"first_request", "next_request"}
    /\ \A j \in PageIdx : ShortPage(j)

\* C19: a list production whose page chain is finite (some fetched page
\* lacks `next` or holds at least the requested count of items) and whose
\* fetches succeed or fail for good always terminates when the caller keeps
\* pulling; follow-up requests are issued for exactly as long as every
\* fetched page has fewer items than the requested count and carries `next`.
C19_Terminates ==
    /\ [](op \in ListOps =>
            /\ \A j \in PageIdx : j # LastPage => ShortPage(j)
            /\ (PageIdx # {} /\ pc # "yield") =>
                  /\ pc = "done" <=> ~ShortPage(LastPage)
                  /\ Len(IssuedFollowUps) = Cardinality({j \in PageIdx : ShortPage(j)})
            /\ pc = "yield" => Len(IssuedFollowUps) = Cardinality(PageIdx) - 1)
    /\ (op \in ListOps) ~> (Finished \/ ChainOpen)

\* C19 witness: a production that followed `next` once ended at a page
\* without `next`, and the caller's next() got StopIteration.
C19_Witness ==
    /\ op \in ListOps
    /\ pc = "done"
    /\ stopped
    /\ Cardinality(PageIdx) = 2
    /\ ShortPage(FirstPage)
    /\ log[LastPage].next = NoNext
    /\ Len(yielded) > 1

\* C20: with backoff enabled the retry budget is per request, not per list
\* production: every page fetch starts with a fresh attempt count, so
\* rate-limited attempts spent on one page do not reduce the attempts
\* available to a later page, and a production of P page fetches issues at
\* most P * max_tries transport calls.
C20_RetryBudgetPerRequest ==
    (op \in ListOps /\ backoff) =>
        /\ \A j \in 1..Len(log) :
              /\ log[j].try <= max_tries
              /\ log[j].try = IF j = 1 \/ Is2xx(log[j - 1].status) THEN 1
                              ELSE log[j - 1].try + 1
              /\ (log[j].status = 429 /\ log[j].try < max_tries) =>
                    ~(j = Len(log) /\ pc = "failed")
        /\ (pc = "next_request" /\ LastPage = Len(log)) => tries = 0
        /\ Len(log) <= NRequests * max_tries

\* C20 witness: the first page came after a retried 429; the 429 answered to
\* the follow-up request is a first attempt again and is retried as well,
\* although the production has then seen max_tries rate-limited attempts.
C20_Witness ==
    /\ op \in ListOps
    /\ backoff
    /\ max_tries = 2
    /\ Len(log) = 3
    /\ log[1].status = 429
    /\ log[2].try = 2
    /\ Is2xx(log[2].status)
    /\ log[3].status = 429
    /\ log[3].try = 1
    /\ pc = "next_request"
    /\ tries = 1
    /\ Len(slept) = 2

\* What the pagination code of operation o does with requested count c
\* against a server that gives the answers ans[j], ans[j + 1], ... one per
\* request, none of them retried: the items yielded, the follow-up requests
\* issued and the ending.  pj is the page fetched before (0 if none).
RECURSIVE Produce(_, _, _, _, _, _)
Produce(o, c, ans, j, pj, acc) ==
    IF j > Len(ans) THEN acc
    ELSE IF ~Is2xx(ans[j].status) THEN [acc EXCEPT !.end = "failed"]
    ELSE LET page == ans[j]
             s == IF pj = 0 THEN FirstSlice(o, page.list, c)
                  ELSE NextSlice(o, page.list, Remaining(o, c, ans[pj].list))
             rem == Remaining(o, c, page.list)
             more == Loop(o, rem, page)
             acc2 == [items |-> acc.items \o s,
                      reqs |-> IF more THEN Append(acc.reqs, NextRequest(o, rem, page))
                               ELSE acc.reqs,
                      end |-> IF more THEN "open" ELSE "done"]
         IN IF more THEN Produce(o, c, ans, j + 1, j, acc2) ELSE acc2
\* the answers of the first n round trips with the 429 answers left out
Without429(n) == SelectSeq(SubSeq(log, 1, n), LAMBDA e : e.status # 429)
\* every 429 answer so far came before the last attempt of its request
WithinBudget == \A j \in 1..Len(log) : log[j].status = 429 => log[j].try < max_tries

\* C21: with backoff enabled, rate limiting that clears within the budget is
\* invisible to the consumer of a list: when every page fetch meets fewer
\* than max_tries consecutive 429 answers, the production yields the same
\* items, follows the same `next` urls with the same count parameters and
\* ends at the same point as against the same answers without any 429; a
\* page fetch that exhausts max_tries aborts the production with
\* RateLimitException after the items of the earlier pages were delivered.
C21_ClearedRateLimitInvisible ==
    (op \in ListOps /\ backoff /\ log # <<>>) =>
        /\ WithinBudget =>
              LET clean == Produce(op, count, Without429(Len(log)), 1, 0, NoProduction) IN
              /\ IsPrefix(yielded, clean.items)
              /\ IsPrefix(IssuedFollowUps, clean.reqs)
              /\ pc # "yield" =>
                    /\ yielded = clean.items
                    /\ IssuedFollowUps = clean.reqs
                    /\ pc = "done" <=> clean.end = "done"
                    /\ pc = "failed" <=> clean.end = "failed"
        /\ \A j \in 1..Len(log) :
              (log[j].status = 429 /\ log[j].try = max_tries) =>
                  /\ j = Len(log)
                  /\ pc = "failed"
                  /\ error = "RateLimitException"
                  /\ yielded = Produce(op, count, Without429(j - 1), 1, 0, NoProduction).items

\* C21 witness: the first page fetch of a production was rate limited once
\* and then answered; the production yielded from two pages and ended.
C21_Witness ==
    /\ op \in ListOps
    /\ backoff
    /\ WithinBudget
    /\ pc = "done"
    /\ Len(log) = 3
    /\ log[1].status = 429
    /\ Len(Without429(Len(log))) = 2
    /\ Taken(FirstPage) > 0
    /\ Taken(LastPage) > 0

\* C22: a list production is not restartable: once it has ended (exhausted
\* or aborted by an error) further pulls yield no items and issue no
\* requests; items are had again only by a fresh list call, which starts
\* with its own initial request and its own remaining count and shares no
\* cursor state with an earlier production.
C22_NotRestartable ==
    /\ [][(op \in ListOps /\ pc \in {"done", "failed"}) =>
            IF spent' # spent
            THEN /\ pc' = "created"
                 /\ yielded' = <<>>
                 /\ r' = NoResponse
                 /\ replays' = <<>>
                 /\ remaining' = 0
                 /\ req' = NoRequest
            ELSE /\ yielded' = yielded
                 /\ log' = log
                 /\ req' = req
                 /\ pc' = pc]_vars
    /\ []((op \in ListOps /\ spent > 0) =>
            /\ (pc = "first_request" /\ tries = 0) => req = FirstRequest(op)
            /\ log # <<>> =>
                  /\ log[1].url = FirstRequest(op).url
                  /\ log[1].cnt = 0
                  /\ log[1].try = 1
            /\ FirstPage # 0 =>
                  /\ Taken(FirstPage) <= TakeLen(Len(log[FirstPage].list), count)
                  /\ RemainingPage = FirstPage =>
                        remaining = count - Len(log[FirstPage].list))

\* C22 witness: a list call made after an earlier production had ended
\* began with the initial request, followed `next` once, yielded from both
\* pages and ended with StopIteration.
C22_Witness ==
    /\ op \in ListOps
    /\ spent = 1
    /\ pc = "done"
    /\ stopped
    /\ Len(log) = 2
    /\ log[1].url = FirstRequest(op).url
    /\ log[2].url = log[1].next
    /\ Taken(FirstPage) > 0
    /\ Taken(LastPage) > 0

====
